---------------------------- MODULE Spec2Model ----------------------------
(***************************************************************************)
(* Model of the Keysight B1517A source/monitor unit driver                 *)
(* (qcodes/instrument_drivers/Keysight/keysightb1500/KeysightB1517A.py).   *)
(*                                                                         *)
(* The driver caches three configuration dictionaries (_source_config,     *)
(* _measure_config, _timing_parameters), builds one command per operation  *)
(* and hands it to the transport (write / ask).  Python values are         *)
(* modelled as tagged records, so that isinstance() is a test of the tag.  *)
(* Python floats are modelled as IEEE-754 binary64 numbers with exact      *)
(* round-to-nearest-even arithmetic on multi-limb naturals.                *)
(***************************************************************************)
EXTENDS Integers, Sequences, FiniteSets, TLC

(***************************************************************************)
(* Naturals of arbitrary size: little-endian sequences of limbs in base    *)
(* 2^15, without leading zero limbs (zero is the empty sequence).          *)
(***************************************************************************)
Base == 2^15

RECURSIVE BNorm(_)
BNorm(a) ==
    IF a = <<>> THEN <<>>
    ELSE IF a[Len(a)] = 0 THEN BNorm(SubSeq(a, 1, Len(a) - 1))
    ELSE a

RECURSIVE BFromInt(_)
BFromInt(n) ==
    IF n = 0 THEN <<>> ELSE <<n % Base>> \o BFromInt(n \div Base)

RECURSIVE BToInt(_)
BToInt(a) ==
    IF a = <<>> THEN 0 ELSE a[1] + Base * BToInt(Tail(a))

RECURSIVE BCmpFrom(_, _, _)
BCmpFrom(a, b, i) ==
    IF i = 0 THEN 0
    ELSE IF a[i] < b[i] THEN -1
    ELSE IF a[i] > b[i] THEN 1
    ELSE BCmpFrom(a, b, i - 1)

\* -1, 0 or 1 as a < b, a = b, a > b
BCmp(a, b) ==
    IF Len(a) < Len(b) THEN -1
    ELSE IF Len(a) > Len(b) THEN 1
    ELSE BCmpFrom(a, b, Len(a))

RECURSIVE BAddC(_, _, _)
BAddC(a, b, c) ==
    IF a = <<>> /\ b = <<>> THEN (IF c = 0 THEN <<>> ELSE <<c>>)
    ELSE LET x == IF a = <<>> THEN 0 ELSE a[1]
             y == IF b = <<>> THEN 0 ELSE b[1]
             s == x + y + c
         IN  <<s % Base>> \o BAddC(IF a = <<>> THEN <<>> ELSE Tail(a),
                                   IF b = <<>> THEN <<>> ELSE Tail(b),
                                   s \div Base)

BAdd(a, b) == BAddC(a, b, 0)

RECURSIVE BSubC(_, _, _)
BSubC(a, b, c) ==
    IF a = <<>> THEN <<>>
    ELSE LET y == IF b = <<>> THEN 0 ELSE b[1]
             d == a[1] - y - c
         IN  <<d % Base>> \o BSubC(Tail(a),
                                   IF b = <<>> THEN <<>> ELSE Tail(b),
                                   IF d < 0 THEN 1 ELSE 0)

\* a - b, for a >= b
BSub(a, b) == BNorm(BSubC(a, b, 0))

RECURSIVE BMulSmallC(_, _, _)
BMulSmallC(a, k, c) ==
    IF a = <<>> THEN (IF c = 0 THEN <<>> ELSE <<c>>)
    ELSE LET p == a[1] * k + c
         IN  <<p % Base>> \o BMulSmallC(Tail(a), k, p \div Base)

\* a * k, for 0 <= k <= Base
BMulSmall(a, k) == BNorm(BMulSmallC(a, k, 0))

RECURSIVE BMul(_, _)
BMul(a, b) ==
    IF a = <<>> \/ b = <<>> THEN <<>>
    ELSE LET rest == BMul(a, Tail(b))
         IN  BAdd(BMulSmall(a, b[1]),
                  IF rest = <<>> THEN <<>> ELSE <<0>> \o rest)

RECURSIVE BDivSmallFrom(_, _, _, _)
BDivSmallFrom(a, k, i, r) ==
    IF i = 0 THEN [q |-> <<>>, r |-> r]
    ELSE LET cur  == r * Base + a[i]
             rest == BDivSmallFrom(a, k, i - 1, cur % k)
         IN  [q |-> rest.q \o <<cur \div k>>, r |-> rest.r]

\* quotient and remainder of a by k, for 0 < k <= Base
BDivSmall(a, k) ==
    LET d == BDivSmallFrom(a, k, Len(a), 0)
    IN  [q |-> BNorm(d.q), r |-> d.r]

RECURSIVE IntBitLen(_)
IntBitLen(n) == IF n = 0 THEN 0 ELSE 1 + IntBitLen(n \div 2)

BBitLen(a) ==
    IF a = <<>> THEN 0 ELSE 15 * (Len(a) - 1) + IntBitLen(a[Len(a)])

RECURSIVE BShl(_, _)
BShl(a, s) ==
    IF a = <<>> \/ s = 0 THEN a
    ELSE IF s >= 15 THEN <<0>> \o BShl(a, s - 15)
    ELSE BMulSmall(a, 2^s)

\* floor(a / 2^s), and whether a bit was shifted out
RECURSIVE BShr(_, _)
BShr(a, s) ==
    IF a = <<>> \/ s = 0 THEN [q |-> a, lost |-> FALSE]
    ELSE IF s >= 15
         THEN LET rest == BShr(Tail(a), s - 15)
              IN  [q |-> rest.q, lost |-> rest.lost \/ a[1] # 0]
    ELSE LET d == BDivSmall(a, 2^s)
         IN  [q |-> d.q, lost |-> d.r # 0]

\* The largest digit q in [lo, hi) with q * d <= r, given lo * d <= r < hi * d
RECURSIVE BDigit(_, _, _, _)
BDigit(r, d, lo, hi) ==
    IF hi - lo = 1 THEN lo
    ELSE LET mid == (lo + hi) \div 2
         IN  IF BCmp(BMulSmall(d, mid), r) <= 0
             THEN BDigit(r, d, mid, hi)
             ELSE BDigit(r, d, lo, mid)

RECURSIVE BDivModFrom(_, _, _, _)
BDivModFrom(n, d, i, r) ==
    IF i = 0 THEN [q |-> <<>>, r |-> r]
    ELSE LET cur   == BNorm(<<n[i]>> \o r)
             digit == BDigit(cur, d, 0, Base)
             rest  == BDivModFrom(n, d, i - 1,
                                  BSub(cur, BMulSmall(d, digit)))
         IN  [q |-> rest.q \o <<digit>>, r |-> rest.r]

\* quotient and remainder of n by d (d > 0), by long division in base 2^15
BDivMod(n, d) ==
    LET res == BDivModFrom(n, d, Len(n), <<>>)
    IN  [q |-> BNorm(res.q), r |-> res.r]

(***************************************************************************)
(* Python floats: IEEE-754 binary64, non-negative, normal range.  A float  *)
(* is man * 2^exp with man in [2^52, 2^53), or zero (man = <<>>).          *)
(***************************************************************************)
FZero == [tag |-> "float", man |-> <<>>, exp |-> 0]

\* The binary64 nearest to n * 2^e (plus a little, when sticky), ties to even.
FRound(n, e, sticky) ==
    LET L == BBitLen(n)
    IN  IF L <= 53
        THEN [tag |-> "float", man |-> BShl(n, 53 - L), exp |-> e - (53 - L)]
        ELSE LET s     == L - 53
                 sh    == BShr(n, s - 1)
                 h     == BDivSmall(sh.q, 2)
                 odd   == h.q[1] % 2 = 1
                 up    == h.r = 1 /\ (sh.lost \/ sticky \/ odd)
                 m     == IF up THEN BAdd(h.q, <<1>>) ELSE h.q
             IN  IF BBitLen(m) > 53
                 THEN [tag |-> "float", man |-> BDivSmall(m, 2).q,
                       exp |-> e + s + 1]
                 ELSE [tag |-> "float", man |-> m, exp |-> e + s]

\* float(n) for an int n >= 0
FFromInt(n) == IF n = 0 THEN FZero ELSE FRound(BFromInt(n), 0, FALSE)

\* x * y
FMul(x, y) ==
    IF x.man = <<>> \/ y.man = <<>> THEN FZero
    ELSE FRound(BMul(x.man, y.man), x.exp + y.exp, FALSE)

\* x / y, for y > 0
FDiv(x, y) ==
    IF y.man # <<>> /\ x.man = <<>> THEN FZero
    ELSE LET d == BDivMod(BShl(x.man, 56), y.man)
         IN  FRound(d.q, x.exp - y.exp - 56, d.r # <<>>)

\* -1, 0 or 1 as x < y, x = y, x > y
FCmp(x, y) ==
    IF x.man = <<>> THEN (IF y.man = <<>> THEN 0 ELSE -1)
    ELSE IF y.man = <<>> THEN 1
    ELSE IF x.exp < y.exp THEN -1
    ELSE IF x.exp > y.exp THEN 1
    ELSE BCmp(x.man, y.man)

\* math.ceil(x) as an int
FCeil(x) ==
    IF x.man = <<>> THEN 0
    ELSE IF x.exp >= 0 THEN BToInt(BShl(x.man, x.exp))
    ELSE LET sh == BShr(x.man, 0 - x.exp)
         IN  BToInt(sh.q) + (IF sh.lost THEN 1 ELSE 0)

\* The float a decimal literal with four decimals denotes: units / 10^4,
\* correctly rounded (as the Python parser rounds the literal).
FDec4(units) == FDiv(FFromInt(units), FFromInt(10000))

(***************************************************************************)
(* Python values                                                           *)
(***************************************************************************)
None == [tag |-> "NoneType"]

PyInt(n) == [tag |-> "int", v |-> n]

type(x) == x.tag

isinstance(x, cls) == x.tag = cls

\* Members of the enumerations of the constants module.
VOutputRange ==
    { [tag |-> "VOutputRange", name |-> n] : n \in {"AUTO", "MIN_2V"} }

IOutputRange ==
    { [tag |-> "IOutputRange", name |-> n] : n \in {"AUTO", "MIN_1nA"} }

VMeasRange == { [tag |-> "VMeasRange", name |-> "AUTO"] }

IMeasRange == { [tag |-> "IMeasRange", name |-> "AUTO"] }

CompliancePolarityMode ==
    { [tag |-> "CompliancePolarityMode", name |-> "MANUAL"] }

VAuto == [tag |-> "VOutputRange", name |-> "AUTO"]

IAuto == [tag |-> "IOutputRange", name |-> "AUTO"]

\* self.channels = (ChNr(slot_nr),), for the module in slot 1
channels == << [tag |-> "ChNr", name |-> "SLOT_01_CH1"] >>

(***************************************************************************)
(* Bounds of the inputs the model explores                                 *)
(***************************************************************************)
\* Sample numbers run over 1..MaxNumber.
MaxNumber == 6

\* Forced values run over 0..MaxValue (volts or amperes).
MaxValue == 1

\* Learned-settings replies hold up to MaxEntries entries.
MaxEntries == 2

IntervalMinUnits == 1

IntervalMaxUnits == 655350

\* B1517A._interval_validator = vals.Numbers(0.0001, 65.535)
IntervalMin == FDec4(IntervalMinUnits)

IntervalMax == FDec4(IntervalMaxUnits)

(***************************************************************************)
(* MessageBuilder: one command per call.  A command is kept as the record  *)
(* of its mnemonic and fields rather than as the formatted string.         *)
(***************************************************************************)
dv(chnum, v_range, voltage, i_comp, comp_polarity, i_range) ==
    [cmd |-> "DV", chnum |-> chnum, range |-> v_range, value |-> voltage,
     comp |-> i_comp, comp_polarity |-> comp_polarity, comp_range |-> i_range]

di(chnum, i_range, current, v_comp, comp_polarity, v_range) ==
    [cmd |-> "DI", chnum |-> chnum, range |-> i_range, value |-> current,
     comp |-> v_comp, comp_polarity |-> comp_polarity, comp_range |-> v_range]

ti(chnum, i_range) == [cmd |-> "TI", chnum |-> chnum, range |-> i_range]

tv(chnum, v_range) == [cmd |-> "TV", chnum |-> chnum, range |-> v_range]

mt(h_bias, interval, number, h_base) ==
    [cmd |-> "MT", h_bias |-> h_bias, interval |-> interval,
     number |-> number, h_base |-> h_base]

mm(mode, chans) == [cmd |-> "MM", mode |-> mode, channels |-> chans]

cmm(chnum, mode) == [cmd |-> "CMM", chnum |-> chnum, mode |-> mode]

ri(chnum, i_range) == [cmd |-> "RI", chnum |-> chnum, range |-> i_range]

aad(chnum, adc_type) == [cmd |-> "AAD", chnum |-> chnum, type |-> adc_type]

av(number, mode) == [cmd |-> "AV", number |-> number, mode |-> mode]

fl(enable_filter, chans) ==
    [cmd |-> "FL", enable_filter |-> enable_filter, channels |-> chans]

lrn_query(type_id) == [cmd |-> "*LRN?", type_id |-> type_id]

\* The reply lines of a spot measurement: a line that carries a value, or
\* a line without the expected pattern.
Responses ==
    { [wellformed |-> TRUE, value |-> 0], [wellformed |-> FALSE, value |-> 0] }

parse_spot_measurement_response(response) ==
    IF response.wellformed
    THEN [ok |-> TRUE, value |-> response.value]
    ELSE [ok |-> FALSE, value |-> 0]

(***************************************************************************)
(* Reply lines.  A Python str is modelled as the sequence of its            *)
(* characters; the transport has already stripped the line terminator, so  *)
(* a reply line holds no newline.                                          *)
(***************************************************************************)
Raise(exc) == [ok |-> FALSE, exc |-> exc]

Return(value) == [ok |-> TRUE, value |-> value]

Digits == <<"0", "1", "2", "3", "4", "5", "6", "7", "8", "9">>

IsDigit(c) == \E i \in 1..10 : Digits[i] = c

DigitValue(c) == (CHOOSE i \in 1..10 : Digits[i] = c) - 1

RECURSIVE NatStr(_)
NatStr(n) ==
    IF n < 10 THEN <<Digits[n + 1]>>
    ELSE NatStr(n \div 10) \o <<Digits[(n % 10) + 1]>>

\* str(n) for an int n
IntStr(n) == IF n < 0 THEN <<"-">> \o NatStr(0 - n) ELSE NatStr(n)

RECURSIVE strip(_)
strip(s) ==
    IF s = <<>> THEN s
    ELSE IF Head(s) = " " THEN strip(Tail(s))
    ELSE IF s[Len(s)] = " " THEN strip(SubSeq(s, 1, Len(s) - 1))
    ELSE s

RECURSIVE DigitsValue(_, _)
DigitsValue(s, acc) ==
    IF s = <<>> THEN acc
    ELSE DigitsValue(Tail(s), 10 * acc + DigitValue(Head(s)))

\* int(s): blanks around an optional sign and at least one decimal digit
int(s) ==
    LET t      == strip(s)
        signed == t # <<>> /\ Head(t) \in {"+", "-"}
        ds     == IF signed THEN Tail(t) ELSE t
    IN  IF ds = <<>> \/ \E k \in 1..Len(ds) : ~IsDigit(ds[k])
        THEN Raise("ValueError")
        ELSE Return(IF signed /\ Head(t) = "-"
                    THEN 0 - DigitsValue(ds, 0)
                    ELSE DigitsValue(ds, 0))

\* Whether the characters of t stand in s from position p on.
StartsWithAt(s, p, t) ==
    /\ p + Len(t) - 1 <= Len(s)
    /\ \A k \in 1..Len(t) : s[p + k - 1] = t[k]

\* The first position from p on at which s holds the character c, or 0.
RECURSIVE IndexFrom(_, _, _)
IndexFrom(s, c, p) ==
    IF p > Len(s) THEN 0
    ELSE IF s[p] = c THEN p
    ELSE IndexFrom(s, c, p + 1)

(***************************************************************************)
(* The decoder of a learned-settings reply:                                *)
(*     match = re.findall(r'<TAG> (.+?),(.+?)($|;)', response)             *)
(*     [(ChNr(int(i)).name, <Enum>(int(j)).name) for i, j, _ in match]     *)
(***************************************************************************)
\* One attempt of the pattern at position p of s.  Group 1 is lazy: it ends
\* before the first comma that leaves it a character; the attempt fails when
\* nothing follows that comma.  Group 2 is lazy too: it takes one character
\* and then runs up to the first ';' or to the end of the line.
match_at(s, p, tag) ==
    LET a    == p + Len(tag)
        k    == IndexFrom(s, ",", a + 1)
        semi == IndexFrom(s, ";", k + 2)
    IN  IF StartsWithAt(s, p, tag) /\ k # 0 /\ k < Len(s)
        THEN [found  |-> TRUE,
              groups |-> <<SubSeq(s, a, k - 1),
                           SubSeq(s, k + 1,
                                  IF semi = 0 THEN Len(s) ELSE semi - 1)>>,
              next   |-> IF semi = 0 THEN Len(s) + 1 ELSE semi + 1]
        ELSE [found |-> FALSE, groups |-> <<>>, next |-> p + 1]

\* Mutant: the scan stops after the first match.
RECURSIVE findall_from_first_only(_, _, _)
findall_from_first_only(s, p, tag) ==
    IF p > Len(s) THEN <<>>
    ELSE LET m == match_at(s, p, tag)
         IN  IF m.found THEN <<m.groups>>
             ELSE findall_from_first_only(s, m.next, tag)

\* The matches from position p on, left to right, without overlap.
RECURSIVE findall_from(_, _, _)
findall_from(s, p, tag) ==
    IF p > Len(s) THEN <<>>
    ELSE LET m == match_at(s, p, tag)
         IN  (IF m.found THEN <<m.groups>> ELSE <<>>)
                 \o findall_from(s, m.next, tag)

findall(tag, s) == findall_from(s, 1, tag)

\* Enum(value): the member with that value, or ValueError.
EnumCall(members, value) ==
    IF \E m \in members : m.value = value
    THEN Return(CHOOSE m \in members : m.value = value)
    ELSE Raise("ValueError")

\* Members of the enumerations the decoders look values up in.
ChNrMembers ==
    { [value |-> 1, name |-> "SLOT_01_CH1"],
      [value |-> 2, name |-> "SLOT_02_CH1"] }

IMeasRangeMembers ==
    { [value |-> 0, name |-> "AUTO"],
      [value |-> 11, name |-> "MIN_1nA"],
      [value |-> 0 - 11, name |-> "FIX_1nA"] }

CMMModeMembers ==
    { [value |-> 0, name |-> "COMPLIANCE_SIDE"],
      [value |-> 1, name |-> "CURRENT"],
      [value |-> 2, name |-> "VOLTAGE"] }

\* (ChNr(int(i)).name, <Enum>(int(j)).name) for one match
decode_match(g, members) ==
    LET i  == int(g[1])
        ch == IF i.ok THEN EnumCall(ChNrMembers, i.value) ELSE i
        j  == int(g[2])
        v  == IF j.ok THEN EnumCall(members, j.value) ELSE j
    IN  IF ~ch.ok THEN ch
        ELSE IF ~v.ok THEN v
        ELSE Return(<<ch.value.name, v.value.name>>)

\* The list comprehension over the matches: the first failure ends it.
RECURSIVE decode_matches(_, _)
decode_matches(match, members) ==
    IF match = <<>> THEN Return(<<>>)
    ELSE LET first == decode_match(Head(match), members)
             rest  == decode_matches(Tail(match), members)
         IN  IF ~first.ok THEN first
             ELSE IF ~rest.ok THEN rest
             ELSE Return(<<first.value>> \o rest.value)

RITag == <<"R", "I", " ">>

CMMTag == <<"C", "M", "M", " ">>

\* One entry of a learned-settings reply: <TAG> <chnum>,<value>
Entry(tag, e) == tag \o IntStr(e[1]) \o <<",">> \o IntStr(e[2])

\* The entries joined by ';'
RECURSIVE JoinEntries(_, _)
JoinEntries(tag, es) ==
    IF es = <<>> THEN <<>>
    ELSE IF Len(es) = 1 THEN Entry(tag, es[1])
    ELSE Entry(tag, es[1]) \o <<";">> \o JoinEntries(tag, Tail(es))

\* A reply line of the instrument: the entries, with or without a closing ';'
LearnedLine(tag, es, trailing) ==
    JoinEntries(tag, es) \o (IF trailing THEN <<";">> ELSE <<>>)

\* The parsing part of _get_current_measurement_range
parse_current_measurement_range(response) ==
    decode_matches(findall(RITag, response), IMeasRangeMembers)

\* The parsing part of _get_measurement_operation_mode
parse_measurement_operation_mode(response) ==
    decode_matches(findall(CMMTag, response), CMMModeMembers)

(***************************************************************************)
(* The parser of the sweep delays:                                         *)
(*     match = re.search('WT(?P<hold>.+?),(?P<delay>.+?),'                 *)
(*                       '(?P<step_delay>.+?),(?P<trigger_delay>.+?),'     *)
(*                       '(?P<measure_delay>.+?)(;|$)', response)          *)
(*     {key: float(value) for key, value in match.groupdict().items()}     *)
(***************************************************************************)
\* A negative float carries the field neg; the arithmetic of the timing
\* parameters never meets one.
FNeg(x) == [tag |-> "float", man |-> x.man, exp |-> x.exp, neg |-> TRUE]

\* float(s) for the decimal literals of a reply line: blanks around an
\* optional sign, digits and at most one point, at least one digit, and no
\* more than nine digits in all.  The value is the quotient of two exactly
\* represented integers, rounded once, as the Python parser rounds.
float(s) ==
    LET t      == strip(s)
        signed == t # <<>> /\ Head(t) \in {"+", "-"}
        body   == IF signed THEN Tail(t) ELSE t
        dot    == IndexFrom(body, ".", 1)
        ip     == IF dot = 0 THEN body ELSE SubSeq(body, 1, dot - 1)
        fp     == IF dot = 0 THEN <<>> ELSE SubSeq(body, dot + 1, Len(body))
        ds     == ip \o fp
        num    == FFromInt(DigitsValue(ds, 0))
        den    == FFromInt(10 ^ Len(fp))
        mag    == FDiv(num, den)
    IN  IF ds = <<>> \/ \E k \in 1..Len(ds) : ~IsDigit(ds[k])
        THEN Raise("ValueError")
        ELSE Return(IF signed /\ Head(t) = "-" THEN FNeg(mag) ELSE mag)

NoMatch == [found |-> FALSE, groups |-> <<>>]

\* The groups of n fields "(.+?)," and a last field "(.+?)(;|$)" matched
\* from position a of s.  Every group is lazy: it ends before the first
\* comma after its first character for which the rest of the pattern
\* matches (match_fields_upto tries the commas from k on, in turn); the last
\* group takes one character and runs up to the first ';' or to the end.
RECURSIVE match_fields(_, _, _)
RECURSIVE match_fields_upto(_, _, _, _)
match_fields(s, a, n) ==
    IF n = 0
    THEN IF a > Len(s) THEN NoMatch
         ELSE LET semi == IndexFrom(s, ";", a + 1)
              IN  [found  |-> TRUE,
                   groups |-> <<SubSeq(s, a, IF semi = 0 THEN Len(s)
                                             ELSE semi - 1)>>]
    ELSE match_fields_upto(s, a, IndexFrom(s, ",", a + 1), n)

match_fields_upto(s, a, k, n) ==
    IF k = 0 THEN NoMatch
    ELSE LET rest == match_fields(s, k + 1, n - 1)
         IN  IF rest.found
             THEN [found  |-> TRUE,
                   groups |-> <<SubSeq(s, a, k - 1)>> \o rest.groups]
             ELSE match_fields_upto(s, a, IndexFrom(s, ",", k + 1), n)

WTTag == <<"W", "T">>

\* re.search: the match at the first position that has one
RECURSIVE search_from(_, _)
search_from(s, p) ==
    IF p > Len(s) THEN NoMatch
    ELSE LET m == IF StartsWithAt(s, p, WTTag)
                  THEN match_fields(s, p + Len(WTTag), 4)
                  ELSE NoMatch
         IN  IF m.found THEN m ELSE search_from(s, p + 1)

\* Mutant: the groups are handed out in another order.
sweep_delays_of_swapped(g) ==
    [hold |-> g[2], delay |-> g[1], step_delay |-> g[3],
     trigger_delay |-> g[4], measure_delay |-> g[5]]

\* match.groupdict(), with float applied to each value
sweep_delays_of(g) ==
    [hold |-> g[1], delay |-> g[2], step_delay |-> g[3],
     trigger_delay |-> g[4], measure_delay |-> g[5]]

_get_sweep_delays_parser(response) ==
    LET match == search_from(response, 1)
        out   == [k \in 1..5 |-> float(match.groups[k])]
    IN  IF ~match.found THEN Raise("ValueError")
        ELSE IF \E k \in 1..5 : ~out[k].ok THEN Raise("ValueError")
        ELSE Return(sweep_delays_of([k \in 1..5 |-> out[k].value]))

\* The digits of n in a field of width w, zeros to the left
RECURSIVE ZeroPadded(_, _)
ZeroPadded(n, w) ==
    IF w = 0 THEN <<>>
    ELSE ZeroPadded(n \div 10, w - 1) \o <<Digits[(n % 10) + 1]>>

\* s without its closing zeros, one digit kept
RECURSIVE StripZeros(_)
StripZeros(s) ==
    IF Len(s) > 1 /\ s[Len(s)] = "0" THEN StripZeros(SubSeq(s, 1, Len(s) - 1))
    ELSE s

\* str(x) of the float x = units / 10^4, for units = 0 or units >= 1: the
\* shortest decimal that reads back as x, which is the decimal itself.
Dec4Str(units) ==
    NatStr(units \div 10000) \o <<".">>
        \o StripZeros(ZeroPadded(units % 10000, 4))

\* The five values joined by ','
RECURSIVE JoinFields(_)
JoinFields(texts) ==
    IF Len(texts) = 1 THEN texts[1]
    ELSE texts[1] \o <<",">> \o JoinFields(Tail(texts))

\* 'WT {hold},{delay},{step_delay},{trigger_delay},{measure_delay}', with the
\* blank after the mnemonic (the command of the group) or without it (the
\* reply of the instrument), and with or without a closing ';'.
SweepLine(texts, spaced, trailing) ==
    WTTag \o (IF spaced THEN <<" ">> ELSE <<>>) \o JoinFields(texts)
          \o (IF trailing THEN <<";">> ELSE <<>>)

(***************************************************************************)
(* State                                                                   *)
(*   _source_config, _measure_config, _timing_parameters                   *)
(*       the three dictionaries of the module                              *)
(*   last         the most recent operation: its name, how it ended, and   *)
(*                the transport calls it made, in order                    *)
(*   wire_mt      the MT command most recently delivered by the transport  *)
(*                (None before the first)                                  *)
(*   hist_source  the arguments of the most recent source_config call that *)
(*                returned (None before the first)                         *)
(*   reply_line   the reply line handed to a response parser               *)
(*   decoded      the parser that ran last on it and what it returned or   *)
(*                raised (no parser before the first has run)              *)
(***************************************************************************)
VARIABLES _source_config, _measure_config, _timing_parameters,
          last, wire_mt, hist_source, reply_line, decoded

vars == <<_source_config, _measure_config, _timing_parameters,
          last, wire_mt, hist_source, reply_line, decoded>>

decoder == <<reply_line, decoded>>

Decoded(by, out) == [by |-> by, out |-> out]

NotDecoded == Decoded("", None)

configs == <<_source_config, _measure_config, _timing_parameters>>

Done(op, outcome, calls) == [op |-> op, outcome |-> outcome, calls |-> calls]

WriteCall(msg) == [kind |-> "write", msg |-> msg]

AskCall(msg) == [kind |-> "ask", msg |-> msg]

Init ==
    /\ _measure_config = [measure_range |-> None]
    /\ _source_config = [output_range |-> None, compliance |-> None,
                         compl_polarity |-> None,
                         min_compliance_range |-> None]
    /\ _timing_parameters = [h_bias |-> None, interval |-> None,
                             number |-> None, h_base |-> None]
    /\ last = Done("__init__", "ok", <<>>)
    /\ wire_mt = None
    /\ hist_source = None
    /\ reply_line = <<>>
    /\ decoded = NotDecoded

(***************************************************************************)
(* Derived quantities of the timing parameters                             *)
(***************************************************************************)
_get_number_of_samples(tp) ==
    IF tp.number # None THEN Return(tp.number) ELSE Raise("Exception")

_total_measurement_time(tp) ==
    IF tp.interval = None \/ tp.number = None
    THEN Raise("Exception")
    ELSE Return(FMul(tp.interval, FFromInt(tp.number.v)))

\* len(np.arange(0, stop, step)) = ceil((stop - 0) / step)
arange_len(stop, step) ==
    LET len == FCeil(FDiv(stop, step)) IN IF len < 0 THEN 0 ELSE len

\* np.arange(0, stop, step): element i is 0 + i * step
arange(stop, step) ==
    [i \in 1..arange_len(stop, step) |-> FMul(FFromInt(i - 1), step)]

_get_time_axis(tp) ==
    LET sample_rate == tp.interval
        total_time  == _total_measurement_time(tp)
    IN  IF ~total_time.ok THEN total_time
        ELSE Return(arange(total_time.value, sample_rate))

(***************************************************************************)
(* Operations                                                              *)
(***************************************************************************)
\* Mutant: the default replaces a configured output range too.
_set_voltage_default_always(cfg) == [cfg EXCEPT !.output_range = VAuto]

\* _set_voltage: the default of an unset output range
_set_voltage_default(cfg) ==
    IF cfg.output_range = None
    THEN [cfg EXCEPT !.output_range = VAuto]
    ELSE cfg

\* Mutant: the check tests for the other enumeration.
_set_voltage_rejects_other_kind(cfg) ==
    ~isinstance(cfg.output_range, "IOutputRange")

\* Mutant: the check is missing.
_set_voltage_rejects_never(cfg) == FALSE

\* _set_voltage: the check of the kind of the output range
_set_voltage_rejects(cfg) == ~isinstance(cfg.output_range, "VOutputRange")

_set_voltage(value, write_ok) ==
    LET cfg == _set_voltage_default(_source_config)
        msg == dv(channels[1], cfg.output_range, value, cfg.compliance,
                  cfg.compl_polarity, cfg.min_compliance_range)
    IN  /\ _source_config' = cfg
        /\ last' = IF _set_voltage_rejects(cfg)
                   THEN Done("force_voltage", "TypeError", <<>>)
                   ELSE Done("force_voltage",
                             IF write_ok THEN "ok" ELSE "TransportError",
                             <<WriteCall(msg)>>)
        /\ UNCHANGED <<_measure_config, _timing_parameters, wire_mt,
                       hist_source, decoder>>

\* Mutant: the default replaces a configured output range too.
_set_current_default_always(cfg) == [cfg EXCEPT !.output_range = IAuto]

\* _set_current: the default of an unset output range
_set_current_default(cfg) ==
    IF cfg.output_range = None
    THEN [cfg EXCEPT !.output_range = IAuto]
    ELSE cfg

\* Mutant: the check is missing.
_set_current_rejects_never(cfg) == FALSE

\* _set_current: the check of the kind of the output range
_set_current_rejects(cfg) == ~isinstance(cfg.output_range, "IOutputRange")

_set_current(value, write_ok) ==
    LET cfg == _set_current_default(_source_config)
        msg == di(channels[1], cfg.output_range, value, cfg.compliance,
                  cfg.compl_polarity, cfg.min_compliance_range)
    IN  /\ _source_config' = cfg
        /\ last' = IF _set_current_rejects(cfg)
                   THEN Done("force_current", "TypeError", <<>>)
                   ELSE Done("force_current",
                             IF write_ok THEN "ok" ELSE "TransportError",
                             <<WriteCall(msg)>>)
        /\ UNCHANGED <<_measure_config, _timing_parameters, wire_mt,
                       hist_source, decoder>>

\* The outcome of a query: the ask may fail in the transport, and the reply
\* may fail to parse.
AskOutcome(ask_ok, response) ==
    IF ~ask_ok THEN "TransportError"
    ELSE IF parse_spot_measurement_response(response).ok THEN "ok"
    ELSE "ParseError"

_get_current(ask_ok, response) ==
    LET msg == ti(channels[1], _measure_config.measure_range)
    IN  /\ last' = Done("get_current", AskOutcome(ask_ok, response),
                        <<AskCall(msg)>>)
        /\ UNCHANGED <<configs, wire_mt, hist_source, decoder>>

_get_voltage(ask_ok, response) ==
    LET msg == tv(channels[1], _measure_config.measure_range)
    IN  /\ last' = Done("get_voltage", AskOutcome(ask_ok, response),
                        <<AskCall(msg)>>)
        /\ UNCHANGED <<configs, wire_mt, hist_source, decoder>>

WriteOutcome(write_ok) == IF write_ok THEN "ok" ELSE "TransportError"

_set_current_measurement_range(i_range, write_ok) ==
    LET msg == ri(channels[1], i_range)
    IN  /\ last' = Done("set_current_measurement_range",
                        WriteOutcome(write_ok), <<WriteCall(msg)>>)
        /\ UNCHANGED <<configs, wire_mt, hist_source, decoder>>

\* The outcome of a learned-settings query: the ask may fail in the
\* transport, and the decoding of the reply may raise.
LearnedOutcome(ask_ok, parsed) ==
    IF ~ask_ok THEN "TransportError"
    ELSE IF parsed.ok THEN "ok"
    ELSE parsed.exc

_get_current_measurement_range(ask_ok, response) ==
    LET msg == lrn_query("MEASUREMENT_RANGING_STATUS")
    IN  /\ last' = Done("get_current_measurement_range",
                        LearnedOutcome(ask_ok,
                            parse_current_measurement_range(response)),
                        <<AskCall(msg)>>)
        /\ UNCHANGED <<configs, wire_mt, hist_source, decoder>>

_set_measurement_mode(mode, write_ok) ==
    LET msg == mm(mode, <<channels[1]>>)
    IN  /\ last' = Done("set_measurement_mode",
                        WriteOutcome(write_ok), <<WriteCall(msg)>>)
        /\ UNCHANGED <<configs, wire_mt, hist_source, decoder>>

_set_measurement_operation_mode(mode, write_ok) ==
    LET msg == cmm(channels[1], mode)
    IN  /\ last' = Done("set_measurement_operation_mode",
                        WriteOutcome(write_ok), <<WriteCall(msg)>>)
        /\ UNCHANGED <<configs, wire_mt, hist_source, decoder>>

_get_measurement_operation_mode(ask_ok, response) ==
    LET msg == lrn_query("SMU_MEASUREMENT_OPERATION")
    IN  /\ last' = Done("get_measurement_operation_mode",
                        LearnedOutcome(ask_ok,
                            parse_measurement_operation_mode(response)),
                        <<AskCall(msg)>>)
        /\ UNCHANGED <<configs, wire_mt, hist_source, decoder>>

\* Mutant: the check is missing.
source_config_rejects_never(output_range, min_compliance_range) == FALSE

\* source_config: the check of min_compliance_range against output_range
source_config_rejects(output_range, min_compliance_range) ==
    /\ min_compliance_range # None
    /\ isinstance(min_compliance_range, type(output_range))

source_config(output_range, compliance, compl_polarity, min_compliance_range) ==
    IF source_config_rejects(output_range, min_compliance_range)
    THEN /\ last' = Done("source_config", "TypeError", <<>>)
         /\ UNCHANGED <<configs, wire_mt, hist_source, decoder>>
    ELSE LET cfg == [output_range |-> output_range,
                     compliance |-> compliance,
                     compl_polarity |-> compl_polarity,
                     min_compliance_range |-> min_compliance_range]
         IN  /\ _source_config' = cfg
             /\ hist_source' = cfg
             /\ last' = Done("source_config", "ok", <<>>)
             /\ UNCHANGED <<_measure_config, _timing_parameters, wire_mt,
                           decoder>>

measure_config(measure_range) ==
    /\ _measure_config' = [measure_range |-> measure_range]
    /\ last' = Done("measure_config", "ok", <<>>)
    /\ UNCHANGED <<_source_config, _timing_parameters, wire_mt, hist_source,
                   decoder>>

\* Mutant: the validator has no upper limit.
interval_valid_no_max(interval) == FCmp(IntervalMin, interval) <= 0

\* vals.Numbers(0.0001, 65.535).validate(interval)
interval_valid(interval) ==
    /\ FCmp(IntervalMin, interval) <= 0
    /\ FCmp(interval, IntervalMax) <= 0

\* self._timing_parameters.update(...)
timing_update(tp, h_bias, interval, number, h_base) ==
    [tp EXCEPT !.h_bias = h_bias, !.interval = interval,
               !.number = number, !.h_base = h_base]

timing_parameters(h_bias, interval, number, h_base, write_ok) ==
    IF ~interval_valid(interval)
    THEN /\ last' = Done("timing_parameters", "ValueError", <<>>)
         /\ UNCHANGED <<configs, wire_mt, hist_source, decoder>>
    ELSE LET msg == mt(h_bias, interval, number, h_base)
         IN  /\ _timing_parameters' =
                    timing_update(_timing_parameters, h_bias, interval,
                                  number, h_base)
             /\ last' = Done("timing_parameters",
                             IF write_ok THEN "ok" ELSE "TransportError",
                             <<WriteCall(msg)>>)
             /\ wire_mt' = IF write_ok THEN msg ELSE wire_mt
             /\ UNCHANGED <<_source_config, _measure_config, hist_source,
                            decoder>>

\* Mutant: the command goes to the transport twice.
use_high_speed_adc_twice(write_ok) ==
    LET msg == aad(channels[1], "HIGH_SPEED")
    IN  /\ last' = Done("use_high_speed_adc", WriteOutcome(write_ok),
                        <<WriteCall(msg), WriteCall(msg)>>)
        /\ UNCHANGED <<configs, wire_mt, hist_source, decoder>>

use_high_speed_adc(write_ok) ==
    LET msg == aad(channels[1], "HIGH_SPEED")
    IN  /\ last' = Done("use_high_speed_adc", WriteOutcome(write_ok),
                        <<WriteCall(msg)>>)
        /\ UNCHANGED <<configs, wire_mt, hist_source, decoder>>

use_high_resolution_adc(write_ok) ==
    LET msg == aad(channels[1], "HIGH_RESOLUTION")
    IN  /\ last' = Done("use_high_resolution_adc", WriteOutcome(write_ok),
                        <<WriteCall(msg)>>)
        /\ UNCHANGED <<configs, wire_mt, hist_source, decoder>>

set_average_samples_for_high_speed_adc(number, mode, write_ok) ==
    LET msg == av(number, mode)
    IN  /\ last' = Done("set_average_samples_for_high_speed_adc",
                        WriteOutcome(write_ok), <<WriteCall(msg)>>)
        /\ UNCHANGED <<configs, wire_mt, hist_source, decoder>>

connection_mode_of_smu_filter(enable_filter, chans, write_ok) ==
    LET msg == fl(enable_filter, chans)
    IN  /\ last' = Done("connection_mode_of_smu_filter",
                        WriteOutcome(write_ok), <<WriteCall(msg)>>)
        /\ UNCHANGED <<configs, wire_mt, hist_source, decoder>>

(***************************************************************************)
(* Inputs                                                                  *)
(***************************************************************************)
OutputRanges == VOutputRange \cup IOutputRange

Compliances == {None, PyInt(1)}

Polarities == {None} \cup CompliancePolarityMode

MinComplianceRanges == {None, VAuto, IAuto}

MeasureRanges == VMeasRange \cup IMeasRange

ForceValues == { FFromInt(v) : v \in 0..MaxValue }

HBiases == {FZero}

HBases == {None, FZero}

\* Sampling intervals in units of 0.1 ms: 0 s and 65.5351 s lie outside the
\* validator's range, 0.002 s inside.
IntervalUnits == {0, 20, 655351}

Intervals == { FDec4(u) : u \in IntervalUnits }

Numbers == {PyInt(1)}

\* The sampling intervals and numbers of the timing specification: the
\* ends of the validator's range, values just outside, and values between.
TimingIntervalUnits == {0, 1, 100, 1000, 655350, 655351}

TimingIntervals == { FDec4(u) : u \in TimingIntervalUnits }

TimingNumbers == { PyInt(n) : n \in 1..MaxNumber }

MMModes == { [tag |-> "MM.Mode", name |-> n] : n \in {"SPOT", "SAMPLING"} }

CMMModes == { [tag |-> "CMM.Mode", name |-> m.name] : m \in CMMModeMembers }

AVNumbers == {PyInt(1)}

AVModes == { [tag |-> "AV.Mode", name |-> n] : n \in {"AUTO", "MANUAL"} }

FilterChannels == {None}

\* Replies to the learned-settings queries: no entry, one entry, and one
\* entry of a channel number that constants.ChNr does not have.
RangeLines ==
    { LearnedLine(RITag, es, FALSE) :
          es \in {<<>>, <<<<1, 0>>>>, <<<<3, 0>>>>} }

ModeLines ==
    { LearnedLine(CMMTag, es, TRUE) :
          es \in {<<>>, <<<<1, 2>>>>, <<<<1, 7>>>>} }

\* The entries (chnum, value) of well-formed learned-settings replies, and
\* the lists of up to MaxEntries of them.
RangeEntries ==
    { <<c.value, r.value>> : c \in ChNrMembers, r \in IMeasRangeMembers }

ModeEntries ==
    { <<c.value, m.value>> : c \in ChNrMembers, m \in CMMModeMembers }

EntryLists(entries) == UNION { [1..n -> entries] : n \in 0..MaxEntries }

\* Lines that do not follow the grammar: a channel number constants.ChNr
\* does not have, a value that is no number, an entry cut short, and an
\* entry of another mnemonic.
OtherLines ==
    { <<"R", "I", " ", "3", ",", "0">>,
      <<"R", "I", " ", "1", ",", "-">>,
      <<"C", "M", "M", " ", "1", ",", "7", ";">>,
      <<"R", "I", " ", "1", ",">>,
      <<"R", "V", " ", "1", ",", "0">> }

LearnedLines ==
    { LearnedLine(RITag, es, t) :
          es \in EntryLists(RangeEntries), t \in BOOLEAN }
    \cup { LearnedLine(CMMTag, es, t) :
               es \in EntryLists(ModeEntries), t \in BOOLEAN }
    \cup OtherLines

\* Sweep delays, each with the text Python prints for it: floats given in
\* units of 0.1 ms, and ints.
SweepUnits == {1, 3000}

SweepInts == {1}

SweepValues ==
    { [text |-> Dec4Str(u), value |-> FDec4(u)] : u \in SweepUnits }
    \cup { [text |-> IntStr(n), value |-> FFromInt(n)] : n \in SweepInts }

\* The lines of the given vectors of five values, and the delays owed for
\* each.
SweepCasesOf(vectors, spacings) ==
    { [line   |-> SweepLine([k \in 1..5 |-> vs[k].text], sp, t),
       delays |-> [hold |-> vs[1].value, delay |-> vs[2].value,
                   step_delay |-> vs[3].value,
                   trigger_delay |-> vs[4].value,
                   measure_delay |-> vs[5].value]] :
          vs \in vectors, sp \in spacings, t \in BOOLEAN }

\* Every reply of five of these values, and the commands of five equal ones.
SweepCases ==
    SweepCasesOf([1..5 -> SweepValues], {FALSE})
    \cup SweepCasesOf({ [k \in 1..5 |-> v] : v \in SweepValues }, {TRUE})

\* Lines without a WT record of five fields: nothing, four fields, four
\* fields and a comma, and five fields under another mnemonic or none.
NoRecordLines ==
    { <<>>,
      <<"W", "T", "1", ",", "1", ",", "1", ",", "1">>,
      <<"W", "T", "1", ",", "1", ",", "1", ",", "1", ",">>,
      <<"W", "T", "1", ",", "1", ",", "1", ",", "1", ";", "1">>,
      <<"W", "M", "1", ",", "1", ",", "1", ",", "1", ",", "1">>,
      <<"1", ",", "1", ",", "1", ",", "1", ",", "1", ";">> }

SweepLines == { c.line : c \in SweepCases } \cup NoRecordLines \cup OtherLines

(***************************************************************************)
(* Specifications                                                          *)
(***************************************************************************)
Next ==
    \/ \E o \in OutputRanges, c \in Compliances, p \in Polarities,
          m \in MinComplianceRanges : source_config(o, c, p, m)
    \/ \E r \in MeasureRanges : measure_config(r)
    \/ \E hb \in HBiases, i \in Intervals, n \in Numbers, hs \in HBases,
          w \in BOOLEAN : timing_parameters(hb, i, n, hs, w)
    \/ \E v \in ForceValues, w \in BOOLEAN : _set_voltage(v, w)
    \/ \E v \in ForceValues, w \in BOOLEAN : _set_current(v, w)
    \/ \E a \in BOOLEAN, r \in Responses : _get_voltage(a, r)
    \/ \E a \in BOOLEAN, r \in Responses : _get_current(a, r)

Spec == Init /\ [][Next]_vars

\* Every operation of the module: those of Spec and the commands and
\* queries that neither read nor write the configuration dictionaries.
NextCommands ==
    \/ Next
    \/ \E m \in MMModes, w \in BOOLEAN : _set_measurement_mode(m, w)
    \/ \E m \in CMMModes, w \in BOOLEAN : _set_measurement_operation_mode(m, w)
    \/ \E a \in BOOLEAN, r \in ModeLines : _get_measurement_operation_mode(a, r)
    \/ \E r \in IMeasRange, w \in BOOLEAN : _set_current_measurement_range(r, w)
    \/ \E a \in BOOLEAN, r \in RangeLines : _get_current_measurement_range(a, r)
    \/ \E w \in BOOLEAN : use_high_speed_adc(w)
    \/ \E w \in BOOLEAN : use_high_resolution_adc(w)
    \/ \E n \in AVNumbers, m \in AVModes, w \in BOOLEAN :
          set_average_samples_for_high_speed_adc(n, m, w)
    \/ \E e \in BOOLEAN, c \in FilterChannels, w \in BOOLEAN :
          connection_mode_of_smu_filter(e, c, w)

SpecCommands == Init /\ [][NextCommands]_vars

\* The timing parameters alone, over more intervals and sample numbers.
NextTiming ==
    \E hb \in HBiases, i \in TimingIntervals, n \in TimingNumbers,
       hs \in {None}, w \in BOOLEAN : timing_parameters(hb, i, n, hs, w)

SpecTiming == Init /\ [][NextTiming]_vars

\* The response parsers alone: a reply line is drawn, and each parser may
\* be applied to it.
InitDecoder ==
    /\ _measure_config = [measure_range |-> None]
    /\ _source_config = [output_range |-> None, compliance |-> None,
                         compl_polarity |-> None,
                         min_compliance_range |-> None]
    /\ _timing_parameters = [h_bias |-> None, interval |-> None,
                             number |-> None, h_base |-> None]
    /\ last = Done("__init__", "ok", <<>>)
    /\ wire_mt = None
    /\ hist_source = None
    /\ reply_line \in LearnedLines
    /\ decoded = NotDecoded

DecodeCurrentMeasurementRange ==
    /\ decoded' = Decoded("parse_current_measurement_range",
                          parse_current_measurement_range(reply_line))
    /\ UNCHANGED <<configs, last, wire_mt, hist_source, reply_line>>

DecodeMeasurementOperationMode ==
    /\ decoded' = Decoded("parse_measurement_operation_mode",
                          parse_measurement_operation_mode(reply_line))
    /\ UNCHANGED <<configs, last, wire_mt, hist_source, reply_line>>

NextDecoder ==
    \/ DecodeCurrentMeasurementRange
    \/ DecodeMeasurementOperationMode

SpecDecoder == InitDecoder /\ [][NextDecoder]_vars

\* The parser of the sweep delays alone, applied to a drawn reply line.
InitSweep ==
    /\ _measure_config = [measure_range |-> None]
    /\ _source_config = [output_range |-> None, compliance |-> None,
                         compl_polarity |-> None,
                         min_compliance_range |-> None]
    /\ _timing_parameters = [h_bias |-> None, interval |-> None,
                             number |-> None, h_base |-> None]
    /\ last = Done("__init__", "ok", <<>>)
    /\ wire_mt = None
    /\ hist_source = None
    /\ reply_line \in SweepLines
    /\ decoded = NotDecoded

DecodeSweepDelays ==
    /\ decoded' = Decoded("_get_sweep_delays_parser",
                          _get_sweep_delays_parser(reply_line))
    /\ UNCHANGED <<configs, last, wire_mt, hist_source, reply_line>>

NextSweep == DecodeSweepDelays

SpecSweep == InitSweep /\ [][NextSweep]_vars

(***************************************************************************)
(* Claims                                                                  *)
(***************************************************************************)
SourceConfigOf(o, c, p, m) ==
    [output_range |-> o, compliance |-> c, compl_polarity |-> p,
     min_compliance_range |-> m]

\* C1: every source_config call whose min_compliance_range is given and is
\* of the same kind as output_range fails with TypeError, makes no transport
\* call, and leaves the stored source configuration (and the other two
\* dictionaries) as they were.
C1_SameKindRejected ==
    [][last'.op = "source_config" =>
       \A o \in OutputRanges, c \in Compliances, p \in Polarities,
          m \in MinComplianceRanges \ {None} :
          (type(m) = type(o) /\ source_config(o, c, p, m))
          => /\ last' = Done("source_config", "TypeError", <<>>)
             /\ configs' = configs
             /\ wire_mt' = wire_mt]_vars

\* A same-kind source_config call has just failed on a configured module.
C1_Witness ==
    /\ last = Done("source_config", "TypeError", <<>>)
    /\ hist_source # None
    /\ hist_source.min_compliance_range # None

\* C2: force_voltage fails with TypeError, without a transport call, whenever
\* the output_range of the last successful source_config is a current range;
\* force_current fails likewise whenever it is a voltage range.
C2_WrongKindForceRejected ==
    /\ (/\ last.op = "force_voltage"
        /\ hist_source # None
        /\ isinstance(hist_source.output_range, "IOutputRange"))
       => last = Done("force_voltage", "TypeError", <<>>)
    /\ (/\ last.op = "force_current"
        /\ hist_source # None
        /\ isinstance(hist_source.output_range, "VOutputRange"))
       => last = Done("force_current", "TypeError", <<>>)

\* force_voltage has just run after a source_config with a current range.
C2_Witness ==
    /\ last.op = "force_voltage"
    /\ hist_source # None
    /\ isinstance(hist_source.output_range, "IOutputRange")

\* C3: source_config succeeds for every pair of differing kinds (or without
\* min_compliance_range) and stores its arguments; from then on, until the
\* next source_config, every force operation of output_range's kind passes
\* the kind check and hands exactly one command, carrying that range, to the
\* transport's write.
C3_MatchingForceAccepted ==
    [][/\ last'.op = "source_config" =>
          \A o \in OutputRanges, c \in Compliances, p \in Polarities,
             m \in MinComplianceRanges :
             ((m = None \/ type(m) # type(o)) /\ source_config(o, c, p, m))
             => /\ last' = Done("source_config", "ok", <<>>)
                /\ _source_config' = SourceConfigOf(o, c, p, m)
                /\ hist_source' = SourceConfigOf(o, c, p, m)
       /\ (/\ last'.op = "force_voltage"
           /\ hist_source # None
           /\ isinstance(hist_source.output_range, "VOutputRange")) =>
          \A v \in ForceValues, w \in BOOLEAN :
             _set_voltage(v, w)
             => /\ last'.outcome \in {"ok", "TransportError"}
                /\ Len(last'.calls) = 1
                /\ last'.calls[1].kind = "write"
                /\ last'.calls[1].msg.cmd = "DV"
                /\ last'.calls[1].msg.range = hist_source.output_range
                /\ hist_source' = hist_source
       /\ (/\ last'.op = "force_current"
           /\ hist_source # None
           /\ isinstance(hist_source.output_range, "IOutputRange")) =>
          \A v \in ForceValues, w \in BOOLEAN :
             _set_current(v, w)
             => /\ last'.outcome \in {"ok", "TransportError"}
                /\ Len(last'.calls) = 1
                /\ last'.calls[1].kind = "write"
                /\ last'.calls[1].msg.cmd = "DI"
                /\ last'.calls[1].msg.range = hist_source.output_range
                /\ hist_source' = hist_source]_vars

\* A current has been forced after a source_config with a current range and
\* a voltage compliance range.
C3_Witness ==
    /\ last.op = "force_current"
    /\ last.outcome = "ok"
    /\ hist_source # None
    /\ isinstance(hist_source.output_range, "IOutputRange")
    /\ hist_source.min_compliance_range = VAuto

\* C4: an operation that fails, for whatever reason, leaves the three
\* configuration dictionaries as they were before it began.
C4_AllOrNothing ==
    [][last'.outcome # "ok" => configs' = configs]_vars

\* C5: force and measure operations, failing or not, leave the three
\* configuration dictionaries unchanged.
C5_ForceAndMeasureReadOnly ==
    [][last'.op \in {"force_voltage", "force_current",
                     "get_voltage", "get_current"}
       => configs' = configs]_vars

\* C6: in every reachable state a stored min_compliance_range is of another
\* kind than the stored output_range.
C6_KindsDiffer ==
    _source_config.min_compliance_range # None
    => /\ _source_config.output_range # None
       /\ type(_source_config.min_compliance_range)
              # type(_source_config.output_range)

\* A force operation of the other kind has run on a module configured with
\* a compliance range.
C6_Witness ==
    /\ _source_config.min_compliance_range # None
    /\ last = Done("force_voltage", "TypeError", <<>>)

\* The intervals among the inputs that lie outside [0.0001 s, 65.535 s].
OutOfRangeIntervals ==
    { FDec4(u) : u \in { v \in IntervalUnits \cup TimingIntervalUnits :
                            v < IntervalMinUnits \/ v > IntervalMaxUnits } }

\* C7: timing_parameters with an interval outside [0.0001, 65.535] fails with
\* ValueError before any command is built: no transport call is made, no MT
\* command is delivered, and the stored timing parameters are as before.
C7_InvalidIntervalRejected ==
    [][last'.op = "timing_parameters" =>
       \A hb \in HBiases, i \in OutOfRangeIntervals, n \in TimingNumbers,
          hs \in HBases, w \in BOOLEAN :
          timing_parameters(hb, i, n, hs, w)
          => /\ last' = Done("timing_parameters", "ValueError", <<>>)
             /\ _timing_parameters' = _timing_parameters
             /\ wire_mt' = wire_mt]_vars

\* A call with an invalid interval has just failed after an earlier call
\* had stored timing parameters.
C7_Witness ==
    /\ last = Done("timing_parameters", "ValueError", <<>>)
    /\ _timing_parameters.interval # None
    /\ wire_mt # None

TimingAbsent ==
    _timing_parameters.interval = None \/ _timing_parameters.number = None

\* The part of C8 on the failure condition alone: both derived quantities
\* fail exactly when the stored interval or the stored number is absent.
SameFailureCondition ==
    /\ ~_get_number_of_samples(_timing_parameters).ok <=> TimingAbsent
    /\ ~_total_measurement_time(_timing_parameters).ok <=> TimingAbsent

\* C8: total_measurement_time() and sample_count() fail exactly when the
\* stored interval or number is absent, and so both fail from the creation
\* of the module until a timing_parameters call has succeeded.
C8_SameFailureCondition ==
    /\ SameFailureCondition
    /\ wire_mt = None
       => /\ ~_get_number_of_samples(_timing_parameters).ok
          /\ ~_total_measurement_time(_timing_parameters).ok

\* C9: once a timing_parameters call has succeeded, total_measurement_time()
\* is interval * number and sample_count() is number, for the arguments of
\* the most recent successful call.
C9_TotalTimeOfLastSuccess ==
    wire_mt # None
    => /\ _total_measurement_time(_timing_parameters)
              = Return(FMul(wire_mt.interval, FFromInt(wire_mt.number.v)))
       /\ _get_number_of_samples(_timing_parameters)
              = Return(wire_mt.number)

\* C10: with timing parameters stored, time_axis() is 0, interval,
\* 2 * interval, ... of length sample_count(), every element in
\* [0, total_measurement_time()).  Stated for the states a successful
\* timing_parameters call leaves.
C10_TimeAxis ==
    (last = Done("timing_parameters", "ok", <<WriteCall(wire_mt)>>)
        /\ ~TimingAbsent)
    => LET axis  == _get_time_axis(_timing_parameters)
           total == _total_measurement_time(_timing_parameters).value
       IN  /\ axis.ok
           /\ Len(axis.value) = _timing_parameters.number.v
           /\ \A k \in 1..Len(axis.value) :
                 /\ axis.value[k]
                        = FMul(FFromInt(k - 1), _timing_parameters.interval)
                 /\ FCmp(axis.value[k], total) < 0

WriteOps ==
    {"force_voltage", "force_current", "timing_parameters",
     "set_measurement_mode", "set_measurement_operation_mode",
     "set_current_measurement_range", "use_high_speed_adc",
     "use_high_resolution_adc", "set_average_samples_for_high_speed_adc",
     "connection_mode_of_smu_filter"}

AskOps ==
    {"get_voltage", "get_current", "get_current_measurement_range",
     "get_measurement_operation_mode"}

\* C11: no operation makes more than one transport call; every successful
\* set, force or configuration command has made exactly one write, every
\* query exactly one ask, and source_config and measure_config none.
C11_OneTransportCall ==
    /\ Len(last.calls) <= 1
    /\ (last.op \in WriteOps /\ last.outcome = "ok")
       => (Len(last.calls) = 1 /\ last.calls[1].kind = "write")
    /\ last.op \in AskOps
       => (Len(last.calls) = 1 /\ last.calls[1].kind = "ask")
    /\ last.op \in {"source_config", "measure_config"} => last.calls = <<>>
    /\ last.op \in WriteOps \cup AskOps
                   \cup {"source_config", "measure_config", "__init__"}

\* A query of the measurement ranges has made its one ask and then failed
\* to decode the reply.
C11_Witness ==
    last = Done("get_current_measurement_range", "ValueError",
                <<AskCall(lrn_query("MEASUREMENT_RANGING_STATUS"))>>)

\* The names a decoder owes for a list of entries, in their order.
PairsOf(es, members) ==
    [k \in 1..Len(es) |->
        <<EnumCall(ChNrMembers, es[k][1]).value.name,
          EnumCall(members, es[k][2]).value.name>>]

\* Every well-formed reply of up to MaxEntries entries, with and without a
\* closing ';', and the pairs owed for it.
RangeCases ==
    { [line |-> LearnedLine(RITag, es, t),
       pairs |-> PairsOf(es, IMeasRangeMembers)] :
          es \in EntryLists(RangeEntries), t \in BOOLEAN }

ModeCases ==
    { [line |-> LearnedLine(CMMTag, es, t),
       pairs |-> PairsOf(es, CMMModeMembers)] :
          es \in EntryLists(ModeEntries), t \in BOOLEAN }

\* C12: the decoder of learned settings (current measurement range and
\* measurement operation mode) returns one (channel, value name) pair for
\* each <TAG> <chnum>,<value> entry of the line, in the order of the line,
\* for any number of entries, zero included, with or without a closing ';';
\* a line without entries gives the empty list and no error.
C12_OnePairPerEntry ==
    /\ decoded.by = "parse_current_measurement_range"
       => \A c \in RangeCases :
             reply_line = c.line => decoded.out = Return(c.pairs)
    /\ decoded.by = "parse_measurement_operation_mode"
       => \A c \in ModeCases :
             reply_line = c.line => decoded.out = Return(c.pairs)

\* Two entries and a closing ';' have been decoded into two pairs.
C12_Witness ==
    /\ reply_line = LearnedLine(RITag, <<<<1, 11>>, <<2, 0>>>>, TRUE)
    /\ decoded = Decoded("parse_current_measurement_range",
                         Return(<< <<"SLOT_01_CH1", "MIN_1nA">>,
                                   <<"SLOT_02_CH1", "AUTO">> >>))

\* C13: decoding the line WT<hold>,<delay>,<step_delay>,<trigger_delay>,
\* <measure_delay>, with or without a closing ';', gives back the five values
\* under their names; a line that holds no WT record of five fields fails
\* with ValueError and gives nothing.
C13_SweepDelaysRoundTrip ==
    decoded.by = "_get_sweep_delays_parser"
    => /\ \A c \in SweepCases :
             reply_line = c.line => decoded.out = Return(c.delays)
       /\ (\/ reply_line \in NoRecordLines
           \/ \A p \in 1..Len(reply_line) :
                 ~StartsWithAt(reply_line, p, WTTag))
          => decoded.out = Raise("ValueError")

\* A reply of five different-looking values and a closing ';' was decoded.
C13_Witness ==
    /\ reply_line = SweepLine(<<Dec4Str(3000), IntStr(1), Dec4Str(1),
                                Dec4Str(3000), IntStr(1)>>, FALSE, TRUE)
    /\ decoded.by = "_get_sweep_delays_parser"
    /\ decoded.out.ok
    /\ decoded.out.value.hold = FDec4(3000)
    /\ decoded.out.value.step_delay = FDec4(1)

ForceOps == {"force_voltage", "force_current"}

MeasureOps == {"get_voltage", "get_current"}

\* C14: the command a force operation writes carries the output_range,
\* compliance, compliance polarity and min_compliance_range of the latest
\* successful source_config, and the query of a measure operation carries
\* the measure_range of the latest measure_config: only a successful
\* source_config replaces the former, only measure_config the latter, and
\* the operations in between send exactly what is stored.
C14_LatestConfigurationSent ==
    [][/\ (last'.op \in ForceOps /\ last'.calls # <<>> /\ hist_source # None)
          => /\ last'.calls[1].msg.range = hist_source.output_range
             /\ last'.calls[1].msg.comp = hist_source.compliance
             /\ last'.calls[1].msg.comp_polarity = hist_source.compl_polarity
             /\ last'.calls[1].msg.comp_range
                    = hist_source.min_compliance_range
       /\ last'.op \in MeasureOps
          => last'.calls[1].msg.range = _measure_config.measure_range
       /\ hist_source' # hist_source
          => /\ last' = Done("source_config", "ok", <<>>)
             /\ _source_config' = hist_source'
       /\ (hist_source # None /\ _source_config' # _source_config)
          => last' = Done("source_config", "ok", <<>>)
       /\ _measure_config' # _measure_config
          => last' = Done("measure_config", "ok", <<>>)]_vars

\* A current has been forced with the four values of the second of two
\* source_config calls, after a failed one.
C14_Witness ==
    /\ last.op = "force_current"
    /\ last.outcome = "ok"
    /\ hist_source
           = SourceConfigOf([tag |-> "IOutputRange", name |-> "MIN_1nA"],
                            PyInt(1),
                            [tag |-> "CompliancePolarityMode",
                             name |-> "MANUAL"],
                            VAuto)
    /\ last.calls[1].msg.range = hist_source.output_range
    /\ last.calls[1].msg.comp_range = VAuto

Unset == _source_config.output_range = None

\* C15: on a module whose output_range is unset a force operation passes
\* the kind check, hands one command with the auto range of its own kind
\* to the transport and stores that range; from then on every force
\* operation of the other kind fails with TypeError, without a transport
\* call, until a successful source_config stores an output_range of the
\* other kind, and this although source_config was never called.
C15_FirstForceFixesKind ==
    [][/\ (Unset /\ last'.op = "force_voltage")
          => /\ last'.outcome \in {"ok", "TransportError"}
             /\ Len(last'.calls) = 1
             /\ last'.calls[1].msg.cmd = "DV"
             /\ last'.calls[1].msg.range = VAuto
             /\ _source_config'.output_range = VAuto
       /\ (Unset /\ last'.op = "force_current")
          => /\ last'.outcome \in {"ok", "TransportError"}
             /\ Len(last'.calls) = 1
             /\ last'.calls[1].msg.cmd = "DI"
             /\ last'.calls[1].msg.range = IAuto
             /\ _source_config'.output_range = IAuto
       /\ (isinstance(_source_config.output_range, "VOutputRange")
              /\ last'.op = "force_current")
          => last' = Done("force_current", "TypeError", <<>>)
       /\ (isinstance(_source_config.output_range, "IOutputRange")
              /\ last'.op = "force_voltage")
          => last' = Done("force_voltage", "TypeError", <<>>)
       /\ (~Unset /\ type(_source_config'.output_range)
                        # type(_source_config.output_range))
          => /\ last' = Done("source_config", "ok", <<>>)
             /\ hist_source'.output_range = _source_config'.output_range]_vars

\* A current was refused on a module whose kind a forced voltage had fixed,
\* source_config never having been called.
C15_Witness ==
    /\ hist_source = None
    /\ _source_config.output_range = VAuto
    /\ last = Done("force_current", "TypeError", <<>>)

\* C16: in every reachable state the stored timing parameters are all unset
\* and no MT command has been delivered, or they are the arguments of the
\* MT command most recently delivered by the transport, also after a
\* timing_parameters call that failed.
C16_TimingCacheMatchesInstrument ==
    IF wire_mt = None
    THEN _timing_parameters = [h_bias |-> None, interval |-> None,
                               number |-> None, h_base |-> None]
    ELSE _timing_parameters = [h_bias |-> wire_mt.h_bias,
                               interval |-> wire_mt.interval,
                               number |-> wire_mt.number,
                               h_base |-> wire_mt.h_base]

=============================================================================
